---- MODULE Spec2Model ----
(***************************************************************************)
(* A model of glances_info_mcp.py: the in-memory server registry (SERVERS, *)
(* DEFAULT_SERVER), the registry tools, the telemetry tools with their     *)
(* HTTP await, and the byte formatter.                                     *)
(*                                                                         *)
(* Texts returned to the caller are sequences of tokens; a token is a      *)
(* tuple of strings, one token per fixed template of the source            *)
(* (<<"not_found", id>> is the text of ValueError("...: {id}")).           *)
(***************************************************************************)
EXTENDS Integers, Sequences, FiniteSets, TLC

VARIABLES SERVERS, DEFAULT_SERVER, cur, ret, fb

vars == <<SERVERS, DEFAULT_SERVER, cur, ret, fb>>

(***************************************************************************)
(* Values                                                                  *)
(***************************************************************************)

\* Python's None, as a tool argument and as the adapter's absent result.
None == "None"

\* Server ids the callers use.
Ids == {"server1", "server2"}

\* The (name, url, description) triples callers pass to add_server and that
\* a configuration file holds.  A description is a sequence of characters:
\* "S","C" stand for the two characters of the production marker.
Descriptors ==
    { [name |-> "n1", url |-> "u1", description |-> <<"x">>],
      [name |-> "n2", url |-> "u2", description |-> <<"x", "S", "C">>] }

\* The production marker searched for in a description (line 34).
Marker == <<"S", "C">>

\* Changes of the registry followed while one telemetry call is suspended.
MaxRaces == 1

\* What the remote agent can answer to one request: the request fails
\* (None), it succeeds with an empty JSON value, or with a non-empty one.
Data == {"None", "Empty", "Full"}

(***************************************************************************)
(* Python dict, insertion ordered: a sequence of entries with unique ids   *)
(***************************************************************************)

Entry(id, name, url, description) ==
    [id |-> id, name |-> name, url |-> url, description |-> description]

Keys(S) == { S[i].id : i \in 1..Len(S) }

\* S[id], for id in Keys(S)
Lookup(S, id) == S[CHOOSE i \in 1..Len(S) : S[i].id = id]

\* S[id] = value: replaces in place, or appends a new key
DictSet(S, e) ==
    IF e.id \in Keys(S)
    THEN [i \in 1..Len(S) |-> IF S[i].id = e.id THEN e ELSE S[i]]
    ELSE Append(S, e)

\* del S[id]
DictDel(S, id) == SelectSeq(S, LAMBDA e : e.id # id)

\* sub in s, on sequences of characters
Contains(sub, s) ==
    \E i \in 0..(Len(s) - Len(sub)) :
        \A j \in 1..Len(sub) : s[i + j] = sub[j]

(***************************************************************************)
(* Outcomes of a call: a returned text or a raised exception               *)
(***************************************************************************)

NoCtx == [outs |-> <<>>, reqs |-> <<>>, data0 |-> "", url0 |-> "", races |-> 0]

Outcome(op, sid, kind, exc, arg, text, ctx) ==
    [op |-> op, sid |-> sid, kind |-> kind, exc |-> exc, arg |-> arg,
     text |-> text, outs |-> ctx.outs, reqs |-> ctx.reqs,
     data0 |-> ctx.data0, url0 |-> ctx.url0, races |-> ctx.races]

Returned(op, sid, text, ctx) == Outcome(op, sid, "return", "", "", text, ctx)

Raised(op, sid, exc, arg, ctx) == Outcome(op, sid, "raise", exc, arg, <<>>, ctx)

NoRet == Outcome("", "", "none", "", "", <<>>, NoCtx)

\* str(ValueError(f"...: {server_id}"))
NotFound(id) == << <<"not_found", id>> >>

\* No telemetry call is suspended.
NoCall ==
    [h |-> "", sid |-> "", stage |-> 0, url |-> "", acc |-> <<>>,
     outs |-> <<>>, reqs |-> <<>>, data0 |-> "", url0 |-> "", races |-> 0]

Idle == cur.h = ""

(***************************************************************************)
(* Registry helpers (lines 25-42)                                          *)
(***************************************************************************)

get_default_server_id(D) == D.id

\* The ValueError of an unknown id, or the new DEFAULT_SERVER.
set_default_server_id_nocheck(S, D, server_id) ==
    IF server_id \notin Keys(S)
    THEN [raised |-> TRUE, D |-> [D EXCEPT !.id = server_id]]
    ELSE [raised |-> FALSE,
          D |-> [id |-> server_id,
                 env |-> IF Contains(Marker, Lookup(S, server_id).description)
                         THEN "prod" ELSE "test"]]

set_default_server_id(S, D, server_id) ==
    IF server_id \notin Keys(S)
    THEN [raised |-> TRUE, D |-> D]
    ELSE [raised |-> FALSE,
          D |-> [id |-> server_id,
                 env |-> IF Contains(Marker, Lookup(S, server_id).description)
                         THEN "prod" ELSE "test"]]

\* The ValueError of an unknown id (arg is the id it names), or the url.
get_server_url(S, D, server_id) ==
    LET sid == IF server_id = None THEN get_default_server_id(D) ELSE server_id
    IN  IF sid \notin Keys(S)
        THEN [raised |-> TRUE, arg |-> sid, url |-> ""]
        ELSE [raised |-> FALSE, arg |-> sid, url |-> Lookup(S, sid).url]

(***************************************************************************)
(* Registry tools (lines 78-168).  None of them awaits: each runs to its   *)
(* return in one step.  A change of the registry while a telemetry call is *)
(* suspended is counted in that call's races.                              *)
(***************************************************************************)

\* ret follows one caller: with a telemetry call suspended it is that call's
\* caller, and the texts returned to the callers of concurrent registry
\* tools are not recorded.
Observe(o) == IF Idle THEN o ELSE ret

\* The registry tool that leaves (S2, D2) changes the registry under a
\* suspended call.
Races(S2, D2) == ~Idle /\ (S2 # SERVERS \/ D2 # DEFAULT_SERVER)

\* At most MaxRaces changes of the registry are followed per suspended call.
MayRun(S2, D2) == Races(S2, D2) => cur.races < MaxRaces

Race(S2, D2) ==
    IF Races(S2, D2) THEN [cur EXCEPT !.races = cur.races + 1] ELSE cur

set_default_server(server_id) ==
    LET r == set_default_server_id(SERVERS, DEFAULT_SERVER, server_id)
    IN  /\ MayRun(SERVERS, r.D)
        /\ SERVERS' = SERVERS
        /\ DEFAULT_SERVER' = r.D
        /\ cur' = Race(SERVERS, r.D)
        /\ ret' = Observe(
                    IF r.raised
                    THEN Returned("set_default_server", server_id,
                                  NotFound(server_id), NoCtx)
                    ELSE LET server == Lookup(SERVERS, server_id)
                         IN  Returned("set_default_server", server_id,
                                      << <<"default_set", server.name>>
                                         \o server.description >>, NoCtx))
        /\ UNCHANGED fb

get_default_server ==
    LET server_id == get_default_server_id(DEFAULT_SERVER)
    IN  /\ ret' = Observe(
                    IF server_id \notin Keys(SERVERS)
                    THEN Raised("get_default_server", None, "KeyError", server_id, NoCtx)
                    ELSE LET server == Lookup(SERVERS, server_id)
                         IN  Returned("get_default_server", None,
                                      << <<"default", server_id, server.name,
                                           IF DEFAULT_SERVER.env = "prod"
                                           THEN "production" ELSE "testing",
                                           server.url>> \o server.description >>,
                                      NoCtx))
        /\ UNCHANGED <<SERVERS, DEFAULT_SERVER, cur, fb>>

\* The text of list_servers: a header, then one block per entry, in order.
ServerList(S) ==
    << <<"servers">> >> \o
    [i \in 1..Len(S) |-> <<"server", S[i].id, S[i].name, S[i].url>> \o S[i].description]

list_servers ==
    /\ ret' = Observe(Returned("list_servers", None, ServerList(SERVERS), NoCtx))
    /\ UNCHANGED <<SERVERS, DEFAULT_SERVER, cur, fb>>

\* The registry and the text add_server leaves.
add_server_nocheck(S, server_id, name, url, description) ==
    [S |-> DictSet(S, Entry(server_id, name, url, description)),
     text |-> << <<"added", name>> >>]

add_server_result(S, server_id, name, url, description) ==
    IF server_id \in Keys(S)
    THEN [S |-> S, text |-> << <<"exists", server_id>> >>]
    ELSE [S |-> DictSet(S, Entry(server_id, name, url, description)),
          text |-> << <<"added", name>> >>]

add_server(server_id, name, url, description) ==
    LET r == add_server_result(SERVERS, server_id, name, url, description)
    IN  /\ MayRun(r.S, DEFAULT_SERVER)
        /\ SERVERS' = r.S
        /\ ret' = Observe(Returned("add_server", server_id, r.text, NoCtx))
        /\ cur' = Race(r.S, DEFAULT_SERVER)
        /\ UNCHANGED <<DEFAULT_SERVER, fb>>

\* The registry and the text remove_server leaves.
remove_server_keep(S, server_id) ==
    IF server_id \notin Keys(S)
    THEN [S |-> S, text |-> << <<"no_such_server", server_id>> >>]
    ELSE [S |-> S, text |-> << <<"removed", server_id>> >>]

remove_server_result(S, server_id) ==
    IF server_id \notin Keys(S)
    THEN [S |-> S, text |-> << <<"no_such_server", server_id>> >>]
    ELSE [S |-> DictDel(S, server_id), text |-> << <<"removed", server_id>> >>]

remove_server(server_id) ==
    LET r == remove_server_result(SERVERS, server_id)
    IN  /\ MayRun(r.S, DEFAULT_SERVER)
        /\ SERVERS' = r.S
        /\ ret' = Observe(Returned("remove_server", server_id, r.text, NoCtx))
        /\ cur' = Race(r.S, DEFAULT_SERVER)
        /\ UNCHANGED <<DEFAULT_SERVER, fb>>

(***************************************************************************)
(* Telemetry tools (lines 318-812)                                         *)
(***************************************************************************)

\* The tools that issue one GET and render it, with their endpoints.
GetHandlers ==
    {"get_system_info", "get_process_info", "get_network_info", "get_alert_info",
     "get_cpu_info", "get_memory_info", "get_disk_io_info", "get_plugins_list",
     "get_sensors_info", "get_docker_info", "get_gpu_info", "get_quicklook",
     "get_fs_info", "get_uptime", "get_process_count", "get_connections_stats",
     "get_ip_addresses", "get_load_average", "get_swap_info", "get_version_info",
     "get_process_list"}

Handlers == GetHandlers \cup {"clear_all_alerts", "get_all_stats"}

Endpoint(h) ==
    CASE h = "get_system_info" -> "system"
      [] h = "get_process_info" -> "processlist"
      [] h = "get_network_info" -> "network"
      [] h = "get_alert_info" -> "alert"
      [] h = "clear_all_alerts" -> "events/clear/all"
      [] h = "get_cpu_info" -> "cpu"
      [] h = "get_memory_info" -> "mem"
      [] h = "get_disk_io_info" -> "diskio"
      [] h = "get_plugins_list" -> "pluginslist"
      [] h = "get_sensors_info" -> "sensors"
      [] h = "get_docker_info" -> "containers"
      [] h = "get_gpu_info" -> "gpu"
      [] h = "get_quicklook" -> "quicklook"
      [] h = "get_fs_info" -> "fs"
      [] h = "get_uptime" -> "uptime"
      [] h = "get_all_stats" -> "all"
      [] h = "get_process_count" -> "processcount"
      [] h = "get_connections_stats" -> "connections"
      [] h = "get_ip_addresses" -> "ip"
      [] h = "get_load_average" -> "load"
      [] h = "get_swap_info" -> "memswap"
      [] h = "get_version_info" -> "version"
      [] h = "get_process_list" -> "processlist"

\* The tools whose body is a try ... except ValueError: return str(e).
CatchesValueError(h) == h \in {"get_system_info", "get_process_info", "get_all_stats"}

\* make_glances_request / make_glances_post_request up to the await: the
\* ValueError of get_server_url, or the url the request goes to.
make_glances_request(S, D, endpoint, server_id) ==
    LET sid == IF server_id = None THEN get_default_server_id(D) ELSE server_id
    IN  get_server_url(S, D, sid)

\* "if not data" / "if data is None" (get_alert_info) / "if success"
\* (POST: False exactly when the request failed).
Unavailable(h, data) ==
    IF h \in {"get_alert_info", "clear_all_alerts"}
    THEN data = "None"
    ELSE data \in {"None", "Empty"}

\* The fixed message of a tool that got no data; four of them name server_id.
UnavailableText_pasted(h, server_id) == << <<"unavailable", "get_network_info">> >>

UnavailableText(h, server_id) ==
    IF h \in {"get_system_info", "get_process_info", "get_process_list", "get_all_stats"}
    THEN << <<"unavailable", h, server_id>> >>
    ELSE << <<"unavailable", h>> >>

\* The formatter's text for the data of a tool.
Report(h, data) == << <<"report", h, data>> >>

\* The value or exception of a tool (other than get_all_stats) once its
\* request has answered data, in registry S.
HandlerResume(S, h, server_id, data) ==
    IF Unavailable(h, data)
    THEN [kind |-> "return", exc |-> "", arg |-> "", text |-> UnavailableText(h, server_id)]
    ELSE IF h \in {"get_system_info", "get_process_info"}
    THEN IF server_id \notin Keys(S)
         THEN [kind |-> "raise", exc |-> "KeyError", arg |-> server_id, text |-> <<>>]
         ELSE [kind |-> "return", exc |-> "", arg |-> "",
               text |-> << <<"server", Lookup(S, server_id).name, h>> >> \o Report(h, data)]
    ELSE IF h = "clear_all_alerts"
    THEN [kind |-> "return", exc |-> "", arg |-> "", text |-> << <<"cleared">> >>]
    ELSE [kind |-> "return", exc |-> "", arg |-> "", text |-> Report(h, data)]

\* A tool called from outside: it runs to its first await, or ends before it
\* when the server id does not resolve.
Call(h, server_id) ==
    /\ Idle
    /\ LET b == make_glances_request(SERVERS, DEFAULT_SERVER, Endpoint(h), server_id)
       IN  IF b.raised
           THEN /\ cur' = NoCall
                /\ ret' = IF CatchesValueError(h)
                          THEN Returned(h, server_id, NotFound(b.arg), NoCtx)
                          ELSE Raised(h, server_id, "ValueError", b.arg, NoCtx)
           ELSE /\ cur' = [NoCall EXCEPT !.h = h, !.sid = server_id, !.url = b.url,
                                         !.reqs = <<Endpoint(h)>>, !.url0 = b.url]
                /\ ret' = NoRet
    /\ UNCHANGED <<SERVERS, DEFAULT_SERVER, fb>>

\* What an ended call leaves in ret; races is 1 when the registry changed
\* while the call was suspended, however often.
Ctx(c) == [outs |-> c.outs, reqs |-> c.reqs, data0 |-> c.data0, url0 |-> c.url0,
           races |-> IF c.races > 0 THEN 1 ELSE 0]

\* The request of a suspended tool (other than get_all_stats) answers.
Respond(data) ==
    /\ ~Idle
    /\ cur.h # "get_all_stats"
    /\ LET c == [cur EXCEPT !.data0 = data]
           r == HandlerResume(SERVERS, cur.h, cur.sid, data)
       IN  ret' = Outcome(cur.h, cur.sid, r.kind, r.exc, r.arg, r.text, Ctx(c))
    /\ cur' = NoCall
    /\ UNCHANGED <<SERVERS, DEFAULT_SERVER, fb>>

(***************************************************************************)
(* get_all_stats (lines 636-662): its own request to "all", then six       *)
(* tools awaited one after the other.  cur.stage is 0 while the request to *)
(* "all" is out and k while the request of the k-th tool is out.           *)
(***************************************************************************)

SubCalls ==
    <<"get_system_info", "get_cpu_info", "get_memory_info", "get_disk_io_info",
      "get_network_info", "get_uptime">>

NL == << <<"\n">> >>

\* What get_all_stats puts before the k-th tool's text.
Sep_always(k) == NL

Sep(k) == IF k = 1 THEN <<>> ELSE NL

\* get_all_stats from its call of the k-th tool on, in registry S, until a
\* request is out (done = FALSE) or get_all_stats ends (done = TRUE).  A
\* ValueError of a tool that does not catch it is caught by get_all_stats.
RECURSIVE AllStatsRun(_, _, _, _, _)
AllStatsRun(S, D, server_id, k, c) ==
    IF k > Len(SubCalls)
    THEN [done |-> TRUE, kind |-> "return", exc |-> "", arg |-> "", text |-> c.acc, c |-> c]
    ELSE LET h == SubCalls[k]
             b == make_glances_request(S, D, Endpoint(h), server_id)
         IN  IF ~b.raised
             THEN [done |-> FALSE, kind |-> "", exc |-> "", arg |-> "", text |-> <<>>,
                   c |-> [c EXCEPT !.stage = k, !.url = b.url,
                                   !.reqs = Append(c.reqs, Endpoint(h))]]
             ELSE IF CatchesValueError(h)
             THEN AllStatsRun(S, D, server_id, k + 1,
                              [c EXCEPT !.acc = c.acc \o Sep(k) \o NotFound(b.arg),
                                        !.outs = Append(c.outs, NotFound(b.arg))])
             ELSE [done |-> TRUE, kind |-> "return", exc |-> "", arg |-> "",
                   text |-> NotFound(b.arg), c |-> c]

\* get_all_stats from the answer to its pending request on.
AllStatsResume(S, D, c, data) ==
    IF c.stage = 0
    THEN IF Unavailable("get_all_stats", data)
         THEN [done |-> TRUE, kind |-> "return", exc |-> "", arg |-> "",
               text |-> UnavailableText("get_all_stats", c.sid), c |-> c]
         ELSE IF c.sid \notin Keys(S)
         THEN [done |-> TRUE, kind |-> "raise", exc |-> "KeyError", arg |-> c.sid,
               text |-> <<>>, c |-> c]
         ELSE AllStatsRun(S, D, c.sid, 1,
                          [c EXCEPT !.acc = << <<"summary", Lookup(S, c.sid).name>> >>])
    ELSE LET r == HandlerResume(S, SubCalls[c.stage], c.sid, data)
         IN  IF r.kind = "raise"
             THEN [done |-> TRUE, kind |-> "raise", exc |-> r.exc, arg |-> r.arg,
                   text |-> <<>>, c |-> c]
             ELSE AllStatsRun(S, D, c.sid, c.stage + 1,
                              [c EXCEPT !.acc = c.acc \o Sep(c.stage) \o r.text,
                                        !.outs = Append(c.outs, r.text)])

\* The pending request of a suspended get_all_stats answers.
AllStatsRespond(data) ==
    /\ ~Idle
    /\ cur.h = "get_all_stats"
    /\ LET c == IF cur.stage = 0 THEN [cur EXCEPT !.data0 = data] ELSE cur
           r == AllStatsResume(SERVERS, DEFAULT_SERVER, c, data)
       IN  IF r.done
           THEN /\ ret' = Outcome(cur.h, cur.sid, r.kind, r.exc, r.arg, r.text, Ctx(r.c))
                /\ cur' = NoCall
           ELSE /\ ret' = ret
                /\ cur' = r.c
    /\ UNCHANGED <<SERVERS, DEFAULT_SERVER, fb>>

(***************************************************************************)
(* format_bytes / format_bytes_rate (lines 402-412)                        *)
(*                                                                         *)
(* A byte count n is a sequence of base-1024 digits, lowest first, without *)
(* high zeros (<<>> is 0, <<0, 1>> is 1024).  After k divisions the value  *)
(* of bytes_value is n / 1024^k: the counts drawn here have at most 30     *)
(* significant bits, so every float division by 1024 is exact.  The text   *)
(* f"{v:.2f} {unit}" is <<whole, cents, unit>>, v rounded to hundredths,   *)
(* ties to even, as Python's float formatting does.                        *)
(***************************************************************************)

Base == 1024

UNITS == <<"B", "KB", "MB", "GB", "TB">>

\* Shifts e of the counts drawn: n = m * 1024^e with m below 1024^3.
MaxShift == 3

DigitChoices == {0, 1, 128, 384, 512, 1023}

RECURSIVE Canon(_)
Canon(n) ==
    IF n = <<>> THEN <<>>
    ELSE IF n[Len(n)] = 0 THEN Canon(SubSeq(n, 1, Len(n) - 1))
    ELSE n

Zeros(e) == [i \in 1..e |-> 0]

ByteCounts ==
    { Canon(Zeros(e) \o <<a, b, c>>) :
        e \in 0..MaxShift, a \in DigitChoices, b \in DigitChoices, c \in DigitChoices }

\* bytes_value < 1024, for bytes_value = n / 1024^k
Below1024_le(n, k) ==
    \/ Len(n) <= k + 1
    \/ n = Zeros(k + 1) \o <<1>>

Below1024(n, k) == Len(n) <= k + 1

\* floor(n / 1024^k), for counts whose quotient fits a machine integer
RECURSIVE Whole(_, _)
Whole(n, k) ==
    IF Len(n) <= k THEN 0
    ELSE n[k + 1] + Base * Whole(n, k + 1)

\* 100 * (fraction of n / 1024^k): digits 1..j of n times 100, as the carry
\* out of digit j and the digits left below it.
RECURSIVE Times100(_, _)
Times100(n, j) ==
    IF j = 0 THEN [carry |-> 0, rem |-> <<>>]
    ELSE LET lo == Times100(n, j - 1)
             d == IF j <= Len(n) THEN n[j] ELSE 0
             t == 100 * d + lo.carry
         IN  [carry |-> t \div Base, rem |-> Append(lo.rem, t % Base)]

\* n / 1024^k rounded to hundredths, ties to even
Hundredths(n, k) ==
    LET p == Times100(n, k)
        floor == 100 * Whole(n, k) + p.carry
        top == IF k = 0 THEN 0 ELSE p.rem[k]
        low == \E i \in 1..(k - 1) : p.rem[i] # 0
        up == \/ 2 * top > Base
              \/ 2 * top = Base /\ (low \/ floor % 2 = 1)
    IN  IF up THEN floor + 1 ELSE floor

\* f"{bytes_value:.2f} {unit}"
Fixed2(n, k, unit) ==
    LET h == Hundredths(n, k) IN <<h \div 100, h % 100, unit>>

FbIdle == [pc |-> "off", fn |-> "", n |-> <<>>, k |-> 0, out |-> <<>>]

\* One pass of the loop of format_bytes over UNITS, or the return after it.
format_bytes(f) ==
    IF f.k < Len(UNITS)
    THEN IF Below1024(f.n, f.k)
         THEN [f EXCEPT !.pc = "done", !.out = Fixed2(f.n, f.k, UNITS[f.k + 1])]
         ELSE [f EXCEPT !.k = f.k + 1]
    ELSE [f EXCEPT !.pc = "done", !.out = Fixed2(f.n, f.k, "PB")]

\* format_bytes_rate returns format_bytes(bytes_per_sec): the same loop.
FormatStep ==
    /\ fb.pc = "loop"
    /\ fb.fn \in {"format_bytes", "format_bytes_rate"}
    /\ fb' = format_bytes(fb)
    /\ UNCHANGED <<SERVERS, DEFAULT_SERVER, cur, ret>>

(***************************************************************************)
(* Specification                                                           *)
(***************************************************************************)

\* servers_config.json as loaded at line 15: configurations that hold the
\* hard-coded default id "server1".
Configs ==
    { << Entry("server1", "n1", "u1", <<"x">>),
         Entry("server2", "n2", "u2", <<"x", "S", "C">>) >>,
      << Entry("server1", "n1", "u1", <<"x">>) >> }

Init ==
    /\ SERVERS \in Configs
    /\ DEFAULT_SERVER = [id |-> "server1", env |-> "test"]
    /\ cur = NoCall
    /\ ret = NoRet
    /\ fb = FbIdle

Next ==
    \/ \E id \in Ids : set_default_server(id)
    \/ get_default_server
    \/ list_servers
    \/ \E id \in Ids : \E d \in Descriptors :
           add_server(id, d.name, d.url, d.description)
    \/ \E id \in Ids : remove_server(id)
    \/ \E h \in Handlers : \E sid \in Ids \cup {None} : Call(h, sid)
    \/ \E data \in Data : Respond(data)
    \/ \E data \in Data : AllStatsRespond(data)

Spec == Init /\ [][Next]_vars

\* The formatter alone, on every byte count drawn.
InitFormat ==
    /\ SERVERS \in Configs
    /\ DEFAULT_SERVER = [id |-> "server1", env |-> "test"]
    /\ cur = NoCall
    /\ ret = NoRet
    /\ \E n \in ByteCounts : \E fn \in {"format_bytes", "format_bytes_rate"} :
           fb = [FbIdle EXCEPT !.pc = "loop", !.fn = fn, !.n = n]

NextFormat == FormatStep

SpecFormat == InitFormat /\ [][NextFormat]_vars

(***************************************************************************)
(* Properties                                                              *)
(***************************************************************************)

\* ret is the outcome of a telemetry tool that has ended.
Ended == ret.op \in Handlers /\ ret.kind # "none"

\* C1: in every reachable state the default server id references an entry
\* that is present in the registry.
C1_DefaultInRegistry == DEFAULT_SERVER.id \in Keys(SERVERS)

\* C2: a tool whose server id does not resolve (a telemetry tool that ended
\* before any request, set_default_server on an unknown id,
\* get_default_server with the default id not in the registry) returns a
\* text and does not raise.
C2_UnknownIdReturnsText ==
    (\/ Ended /\ ret.reqs = <<>>
     \/ ret.op = "set_default_server" /\ ret.sid \notin Keys(SERVERS)
     \/ ret.op = "get_default_server" /\ DEFAULT_SERVER.id \notin Keys(SERVERS))
    => ret.kind = "return" /\ ret.text # <<>>

\* C3: a telemetry tool called without a server id, with the default server
\* in the registry, no change of the registry meanwhile and present data,
\* sent its request to the default server's url and returns a text that
\* starts with the default server's name where the tool prefixes one.
C3_OmittedIdUsesDefault ==
    (/\ Ended
     /\ ret.sid = None
     /\ ret.races = 0
     /\ ret.data0 = "Full"
     /\ DEFAULT_SERVER.id \in Keys(SERVERS))
    => /\ ret.kind = "return"
       /\ ret.url0 = Lookup(SERVERS, DEFAULT_SERVER.id).url
       /\ ret.op \in {"get_system_info", "get_process_info"}
            => ret.text = << <<"server", Lookup(SERVERS, DEFAULT_SERVER.id).name, ret.op>> >>
                           \o Report(ret.op, "Full")
       /\ ret.op = "get_all_stats"
            => ret.text[1] = <<"summary", Lookup(SERVERS, DEFAULT_SERVER.id).name>>

\* C4: set_default_server on an id not in the registry returns the error
\* text and leaves DEFAULT_SERVER (id and env) unchanged; on an id in the
\* registry, get_default_server_id then gives that id and get_server_url(None)
\* equals get_server_url(id).
C4_SetDefault ==
    [][\A id \in Ids : set_default_server(id) =>
        IF id \notin Keys(SERVERS)
        THEN /\ DEFAULT_SERVER' = DEFAULT_SERVER
             /\ Idle => ret'.kind = "return" /\ ret'.text = NotFound(id)
        ELSE /\ get_default_server_id(DEFAULT_SERVER') = id
             /\ ~get_server_url(SERVERS', DEFAULT_SERVER', id).raised
             /\ get_server_url(SERVERS', DEFAULT_SERVER', None)
                  = get_server_url(SERVERS', DEFAULT_SERVER', id)
             /\ Idle => ret'.kind = "return" /\ ret'.text[1][1] = "default_set"]_vars

C4_Witness ==
    /\ ret.op = "set_default_server"
    /\ ret.text = NotFound("server1")
    /\ DEFAULT_SERVER.id = "server2"
    /\ get_server_url(SERVERS, DEFAULT_SERVER, None).url = "u2"

\* The entries of list_servers' text that show id.
Listed(S, id) ==
    { i \in 1..Len(ServerList(S)) :
        Len(ServerList(S)[i]) >= 2 /\ ServerList(S)[i][2] = id }

\* C5: add_server on an id not in the registry returns success, after it
\* get_server_url(id) is exactly the url supplied and list_servers shows the
\* id exactly once; on an id in the registry it returns the duplicate-id
\* error and leaves the registry as it was.
C5_AddServer ==
    [][\A id \in Ids : \A d \in Descriptors :
        add_server(id, d.name, d.url, d.description) =>
        IF id \notin Keys(SERVERS)
        THEN /\ get_server_url(SERVERS', DEFAULT_SERVER', id)
                  = [raised |-> FALSE, arg |-> id, url |-> d.url]
             /\ Cardinality(Listed(SERVERS', id)) = 1
             /\ Idle => ret'.kind = "return" /\ ret'.text = << <<"added", d.name>> >>
        ELSE /\ SERVERS' = SERVERS
             /\ Idle => ret'.kind = "return" /\ ret'.text = << <<"exists", id>> >>]_vars

C5_Witness ==
    /\ ret.op = "add_server"
    /\ ret.text = << <<"exists", "server2">> >>
    /\ Lookup(SERVERS, "server2").url = "u1"
    /\ Cardinality(Listed(SERVERS, "server2")) = 1

\* C6: remove_server on an id in the registry returns success and
\* get_server_url(id) then fails, and goes on failing over every step that is
\* not an add_server of that id; on an id not in the registry it returns the
\* error text and leaves the registry and DEFAULT_SERVER unchanged.
C6_RemoveServer ==
    [][\A id \in Ids :
        /\ remove_server(id) =>
             IF id \in Keys(SERVERS)
             THEN /\ get_server_url(SERVERS', DEFAULT_SERVER', id).raised
                  /\ get_server_url(SERVERS', DEFAULT_SERVER', id).arg = id
                  /\ Idle => ret'.kind = "return" /\ ret'.text = << <<"removed", id>> >>
             ELSE /\ SERVERS' = SERVERS
                  /\ DEFAULT_SERVER' = DEFAULT_SERVER
                  /\ Idle => ret'.kind = "return"
                             /\ ret'.text = << <<"no_such_server", id>> >>
        /\ (/\ get_server_url(SERVERS, DEFAULT_SERVER, id).raised
            /\ ~\E d \in Descriptors : add_server(id, d.name, d.url, d.description))
           => get_server_url(SERVERS', DEFAULT_SERVER', id).raised]_vars

C6_Witness ==
    /\ ret.op = "remove_server"
    /\ ret.text = << <<"no_such_server", "server1">> >>
    /\ get_server_url(SERVERS, DEFAULT_SERVER, "server1").raised

\* C7: a GET tool or get_all_stats whose server id resolved and whose
\* request got no data returns the one-token unavailable message that names
\* this tool, and does not raise; get_all_stats then has issued only its own
\* request and collected no tool's text.
C7_AbsentDataUnavailable ==
    (ret.op \in GetHandlers \cup {"get_all_stats"} /\ ret.data0 = "None")
    => /\ ret.kind = "return"
       /\ Len(ret.text) = 1
       /\ ret.text[1][1] = "unavailable"
       /\ ret.text[1][2] = ret.op
       /\ ret.op = "get_all_stats" => ret.reqs = <<"all">> /\ ret.outs = <<>>

C7_Witness ==
    /\ ret.op = "get_all_stats"
    /\ ret.data0 = "None"
    /\ ret.text = << <<"unavailable", "get_all_stats", "server2">> >>

\* The t-th tool's text is one that tool wrote.
WrittenBy(h, t) ==
    \E i \in 1..Len(t) : t[i][1] \in {"unavailable", "report"} /\ t[i][2] = h

\* C8: a get_all_stats called with a server id, under which the registry
\* did not change and whose own request got data, returns after all six
\* tools returned their texts; a get_all_stats that does so returns its
\* summary line followed by the texts of get_system_info,
\* get_cpu_info, get_memory_info, get_disk_io_info, get_network_info and
\* get_uptime in that order, a newline before each but the first, after
\* seven requests (its own and one per tool); and every request a suspended
\* get_all_stats issues goes to the url its server id has in the registry at
\* that step.
C8_AllStatsConcatenates ==
    [][/\ (/\ ~Idle
           /\ cur.h = "get_all_stats"
           /\ ret'.op = "get_all_stats"
           /\ ret'.kind = "return"
           /\ Len(ret'.outs) = 6)
          => /\ ret'.text = << ret'.text[1] >> \o ret'.outs[1]
                              \o NL \o ret'.outs[2] \o NL \o ret'.outs[3]
                              \o NL \o ret'.outs[4] \o NL \o ret'.outs[5]
                              \o NL \o ret'.outs[6]
             /\ ret'.text[1][1] = "summary"
             /\ WrittenBy("get_system_info", ret'.outs[1])
             /\ WrittenBy("get_cpu_info", ret'.outs[2])
             /\ WrittenBy("get_memory_info", ret'.outs[3])
             /\ WrittenBy("get_disk_io_info", ret'.outs[4])
             /\ WrittenBy("get_network_info", ret'.outs[5])
             /\ WrittenBy("get_uptime", ret'.outs[6])
             /\ ret'.reqs = <<"all", "system", "cpu", "mem", "diskio", "network", "uptime">>
       /\ (/\ ~Idle
           /\ cur.h = "get_all_stats"
           /\ cur'.h = ""
           /\ cur.sid # None
           /\ cur.races = 0
           /\ ret'.data0 = "Full")
          => ret'.kind = "return" /\ Len(ret'.outs) = 6
       /\ (/\ ~Idle
           /\ cur.h = "get_all_stats"
           /\ cur'.h = "get_all_stats"
           /\ cur'.reqs # cur.reqs)
          => /\ Len(cur'.reqs) = Len(cur.reqs) + 1
             /\ ~get_server_url(SERVERS, DEFAULT_SERVER, cur.sid).raised
             /\ cur'.url = get_server_url(SERVERS, DEFAULT_SERVER, cur.sid).url]_vars

C8_Witness ==
    /\ ret.op = "get_all_stats"
    /\ ret.kind = "return"
    /\ Len(ret.outs) = 6
    /\ Len(ret.text) >= 12

\* C9: format_bytes ends after k divisions by 1024, k the least number that
\* brings the value below 1024 and at most 5, with the k-th unit of B, KB,
\* MB, GB, TB, PB and the value to two decimals; 0 gives "0.00 B", 1023
\* "1023.00 B", 1024 "1.00 KB", 1048576 "1.00 MB", 1024^5 "1.00 PB";
\* format_bytes_rate gives the same text.
C9_FormatBytes ==
    fb.pc = "done" =>
        /\ fb.k <= Len(UNITS)
        /\ fb.k < Len(UNITS) => Whole(fb.n, fb.k) < Base
        /\ fb.k > 0 => Whole(fb.n, fb.k - 1) >= Base
        /\ fb.out = Fixed2(fb.n, fb.k, (UNITS \o <<"PB">>)[fb.k + 1])
        /\ fb.n = <<>> => fb.out = <<0, 0, "B">>
        /\ fb.n = <<1023>> => fb.out = <<1023, 0, "B">>
        /\ fb.n = <<0, 1>> => fb.out = <<1, 0, "KB">>
        /\ fb.n = <<0, 0, 1>> => fb.out = <<1, 0, "MB">>
        /\ fb.n = <<0, 0, 0, 0, 0, 1>> => fb.out = <<1, 0, "PB">>

C9_Witness ==
    /\ fb.pc = "done"
    /\ fb.fn = "format_bytes_rate"
    /\ fb.n = <<0, 0, 0, 0, 0, 1>>
    /\ fb.out = <<1, 0, "PB">>

\* C10: a telemetry tool called with a server id, under which the registry
\* changed while its request was out, ends by returning a text.
C10_RacedCallReturns ==
    (Ended /\ ret.sid # None /\ ret.races > 0) => ret.kind = "return"

\* C11: whenever the default id is in the registry, DEFAULT_SERVER.env is
\* "prod" exactly when the default entry's description contains the
\* production marker, and a get_default_server that returned reports that
\* environment.
C11_EnvFollowsDescription ==
    DEFAULT_SERVER.id \in Keys(SERVERS) =>
        LET prod == Contains(Marker, Lookup(SERVERS, DEFAULT_SERVER.id).description)
        IN  /\ DEFAULT_SERVER.env = (IF prod THEN "prod" ELSE "test")
            /\ (ret.op = "get_default_server" /\ ret.kind = "return")
                 => ret.text[1][4] = (IF prod THEN "production" ELSE "testing")

====
